---- MODULE Spec2Model ----
(***************************************************************************)
(* Model of the GSMArena crawler:                                          *)
(*   - ProxyManager (proxy_pool.go): GetProxy / RemoveProxy / fetchProxies *)
(*     / asyncRefresh, with pm.lock and pm.refreshLock;                    *)
(*   - BoltStorage (storage.go): IsVisited / MarkVisited / Close;          *)
(*   - main.go: the handlers registered on the collector (OnError, the     *)
(*     .makers and #specs-list handlers, savePhone), main's exit and the   *)
(*     signal goroutine.                                                   *)
(* Spec exercises the pool step by step, StoreSpec the store, CrawlSpec a  *)
(* whole run of the crawler, RetrySpec the retry controller on every       *)
(* outcome of an attempt, StartSpec the run from main's first line,        *)
(* ReplaceSpec the pool with fetchProxies' critical section taken by       *)
(* statement, EvictSpec the pool on a list of three addresses, and         *)
(* HandlerSpec the #specs-list handler run by two workers at once.         *)
(* Strings are modelled as sequences of tokens so that the parsing of the  *)
(* supplier's response body (Split, TrimSpace, ReplaceAll, formatProxy) is *)
(* computed, not assumed.  Go slices are 0-based: proxies[currentIndex] in *)
(* the source is proxies[currentIndex + 1] here.                           *)
(***************************************************************************)
EXTENDS Integers, Sequences, FiniteSets, TLC

\* ------------------------------------------------------------------ bounds
\* total number of GetProxy / RemoveProxy calls the workers make in one run
MaxCalls == 3
\* largest value of the logical clock that stamps MarkVisited's values
MaxTime == 2

\* the watermark NewProxyManager is constructed with (minThreshold); main.go
\* passes 5, here it is scaled to the list lengths the supplier's bodies give
Threshold == 2
\* "li a" links the .makers handlers go through in one run
MaxLinks == 2
\* fetches the collector's workers start in one run
MaxAttempts == 2

\* ------------------------------------------------------- program constants
StatusOK == 200

\* ---------------------------------------------------------------- strings
\* A string is a sequence of tokens: "nl" = \n, "cr" = \r, "sp" = a blank,
\* "http://" and "https://" = the scheme prefixes, "h1".. = a host:port text.
WhiteSpace == {"sp", "cr", "nl"}
Schemes == {"http://", "https://"}

RECURSIVE Split(_)
\* strings.Split(s, "\n"): always at least one piece, the pieces between "nl"s
Split(s) ==
  IF \A i \in 1..Len(s) : s[i] # "nl"
  THEN <<s>>
  ELSE LET i == CHOOSE j \in 1..Len(s) :
                   s[j] = "nl" /\ \A k \in 1..(j - 1) : s[k] # "nl"
       IN  <<SubSeq(s, 1, i - 1)>> \o Split(SubSeq(s, i + 1, Len(s)))

RECURSIVE TrimLeft(_)
TrimLeft(s) ==
  IF s # <<>> /\ Head(s) \in WhiteSpace THEN TrimLeft(Tail(s)) ELSE s

RECURSIVE TrimRight(_)
TrimRight(s) ==
  IF s # <<>> /\ s[Len(s)] \in WhiteSpace
  THEN TrimRight(SubSeq(s, 1, Len(s) - 1))
  ELSE s

\* strings.TrimSpace
TrimSpace(s) == TrimRight(TrimLeft(s))

\* strings.ReplaceAll(line, "\r", "")
ReplaceCR(s) == SelectSeq(s, LAMBDA t : t # "cr")

\* formatProxy: keep an address that has a scheme, else put http:// in front
formatProxy(raw) ==
  LET r == TrimSpace(raw)
  IN  IF r # <<>> /\ Head(r) \in Schemes THEN r ELSE <<"http://">> \o r

RECURSIVE ParseLines(_)
\* the loop of fetchProxies over the split lines
ParseLines(lines) ==
  IF lines = <<>>
  THEN <<>>
  ELSE LET line == ReplaceCR(TrimSpace(Head(lines)))
       IN  IF line = <<>>
           THEN ParseLines(Tail(lines))
           ELSE IF formatProxy(line) # <<>>
                THEN <<formatProxy(line)>> \o ParseLines(Tail(lines))
                ELSE ParseLines(Tail(lines))

ParseBody(body) == ParseLines(Split(body))

\* ---------------------------------------------------------------- supplier
\* response bodies the supplier may send with status 200
Bodies ==
  { <<>>,
    <<"cr", "nl", "sp", "nl">>,
    <<"sp", "h1", "cr", "nl">>,
    <<"h1", "nl", "nl", "https://", "h2", "sp">>,
    <<"http://", "h1", "nl", "h1", "nl">> }

\* what client.Get / io.ReadAll can give: a transport error, a non-200
\* status, a body that cannot be read, or status 200 with a body
Responses ==
  { [transportErr |-> TRUE, status |-> 0, readErr |-> FALSE, body |-> <<>>],
    [transportErr |-> FALSE, status |-> 500, readErr |-> FALSE, body |-> <<>>],
    [transportErr |-> FALSE, status |-> StatusOK, readErr |-> TRUE, body |-> <<>>] }
  \cup { [transportErr |-> FALSE, status |-> StatusOK, readErr |-> FALSE, body |-> b] :
           b \in Bodies }

\* the three early returns of fetchProxies
FetchFails(r) == r.transportErr \/ r.status # StatusOK \/ r.readErr

\* every address a response can put into the pool
Addresses == UNION { { ParseBody(b)[i] : i \in 1..Len(ParseBody(b)) } : b \in Bodies }

\* ------------------------------------------------------------- processes
Workers == {"w1", "w2"}
Async == "async"
Procs == Workers \cup {Async}
\* keys the dedup store is asked about; "" is the empty key bbolt rejects
Keys == {"", "u1", "u2"}

VARIABLES
  proxies,       \* pm.proxies
  currentIndex,  \* pm.currentIndex
  isRefreshing,  \* pm.isRefreshing
  minThreshold,  \* pm.minThreshold
  lock,          \* the writer holding pm.lock, or "free"
  pc,            \* position of every worker and of the goroutine inside asyncRefresh
  goWaiting,     \* asyncRefresh goroutines started and not yet past refreshLock.Lock()
  aBurst,        \* the goroutine inside asyncRefresh was started while another was in flight
  newProxies,    \* fetchProxies' local newProxies, per caller
  fres,          \* what the caller's fetchProxies returned: "none", "ok", "err"
  loc,           \* the locals of the call each worker is in (installedAny: its
                 \* own fetchProxies put a non-empty list into the pool)
  returned,      \* the call that returned last: its locals and its result
  callsLeft,     \* calls the workers may still start
  recent,        \* the addresses GetProxy returned since the list last changed (the last Len(proxies))
  dbOpen,        \* BoltStorage: the bolt.DB is open
  bucket,        \* the visited_urls bucket on disk: key -> timestamp
  clock,         \* time.Now()
  marked,        \* per key, how often MarkVisited returned nil: 0, 1, or 2 for twice or more
  last,          \* the last storage call and its result
  req,           \* per detail-page URL, the request the collector holds for it
  hist,          \* the outcome the collector called a handler for last, and the
                 \* case taken: OnError's "mark", "retry", "skip", or "page"
  sink,          \* per URL, how many lines savePhone wrote to the output file (0, 1, 2 = twice or more)
  fileOpen,      \* outputFile is open
  prevProxy,     \* per URL, the ProxyURL of its last attempt that was retried ("" = none)
  freshViolated, \* an attempt that followed a retry got the address of the attempt before
  viaSuccess,    \* URLs the #specs-list handler's MarkVisited wrote
  dispatched,    \* URLs a fetch was issued for in this run
  prior,         \* URLs the store held when this run started
  sd,            \* where the process is: running, in the signal goroutine, in main's exit, exited
  linksLeft,     \* "li a" links the .makers handlers of this run still go through
  attemptsLeft   \* fetches the collector's workers may still start

sharedVars == <<proxies, currentIndex, isRefreshing, minThreshold, lock>>
poolVars == <<sharedVars, pc, goWaiting, aBurst, newProxies, fres, loc, returned,
              callsLeft, recent>>
storeVars == <<dbOpen, bucket, clock, marked, last>>
crawlVars == <<req, hist, sink, fileOpen, prevProxy, freshViolated, viaSuccess, dispatched,
               prior, sd, linksLeft, attemptsLeft>>
vars == <<poolVars, storeVars, crawlVars>>

\* ------------------------------------------------------------ ProxyManager
NextIndex_stuck(idx, n) == idx

\* the round-robin step of GetProxy
NextIndex(idx, n) == (idx + 1) % n

RemoveAdjust_noReset(idx, n) == idx

\* RemoveProxy's index adjustment after the removal, n = the new length
RemoveAdjust(idx, n) == IF idx >= n /\ n > 0 THEN 0 ELSE idx

\* RemoveProxy's search: position of the first match, 0 when there is none
IndexOf(s, x) ==
  IF \E i \in 1..Len(s) : s[i] = x
  THEN CHOOSE i \in 1..Len(s) : s[i] = x /\ \A k \in 1..(i - 1) : s[k] # x
  ELSE 0

\* a removal that moves the last element into the gap
RemoveAt_swapLast(s, i) ==
  IF i = Len(s) THEN SubSeq(s, 1, Len(s) - 1)
  ELSE [k \in 1..(Len(s) - 1) |-> IF k = i THEN s[Len(s)] ELSE s[k]]

\* append(pm.proxies[:i], pm.proxies[i+1:]...)
RemoveAt(s, i) == SubSeq(s, 1, i - 1) \o SubSeq(s, i + 1, Len(s))

NeedsSyncRefresh_never(count) == FALSE

\* GetProxy's case 1: the pool is empty, refresh synchronously
NeedsSyncRefresh(count) == count = 0

\* the watermark test of GetProxy (case 2) and of RemoveProxy
BelowThreshold(count, threshold) == count < threshold

RemoveTriggers_always(found, count, threshold) == BelowThreshold(count, threshold)

\* RemoveProxy tests the watermark inside the branch that found the address
RemoveTriggers(found, count, threshold) == found /\ BelowThreshold(count, threshold)

\* `go pm.asyncRefresh()`: one more goroutine on its way to refreshLock.Lock();
\* it is counted under "burst" when a refresh is in flight as it starts
GoAsyncRefresh(gw) ==
  IF isRefreshing
  THEN [gw EXCEPT !.burst = @ + 1]
  ELSE [gw EXCEPT !.fresh = @ + 1]

\* the last n elements of s
LastN(s, n) == IF Len(s) <= n THEN s ELSE SubSeq(s, Len(s) - n + 1, Len(s))

\* locals of a worker that is in no call
NoCall ==
  [op |-> "none", arg |-> <<>>, proxyCount |-> 0, sawEmpty |-> FALSE,
   syncCalls |-> 0, installedAny |-> FALSE, trig |-> FALSE]

\* the record of a call that returns: the locals at the return and the result
ReturnOf(l, f, r) ==
  [op |-> l.op, proxyCount |-> l.proxyCount, sawEmpty |-> l.sawEmpty,
   syncCalls |-> l.syncCalls, installedAny |-> l.installedAny, trig |-> l.trig,
   fres |-> f, ret |-> r]

\* ------------------------------------------------------ crawler (main.go)
\* the detail-page URLs of the crawl
Targets == Keys \ {""}

\* err.Error() as a sequence of words; NoError is a nil error
NoError == << >>
ErrTexts ==
  { <<"other">>, <<"read", "timeout">>, <<"connection refused">>, <<"unexpected", "EOF">> }

\* r.StatusCode of the attempts the crawl meets
Statuses == {0, 200, 403, 404, 429, 500, 503}

\* what a fetch that went out through a proxy can end with: a page (200, no
\* error) or a failure the collector hands to OnError with its error
Outcomes ==
  {[status |-> 200, err |-> NoError]}
    \cup {[status |-> st, err |-> e] : st \in Statuses \ {200}, e \in ErrTexts}

\* the outcomes the whole-run specification draws from: for each case of
\* OnError's switch one failure that takes it, and the page
CrawlOutcomes ==
  {o \in Outcomes : /\ o.status \in {0, 200, 404, 429}
                    /\ o.err \in {NoError, <<"other">>, <<"read", "timeout">>}
                    /\ o.status \in {404, 429} => o.err = <<"other">>}

\* strings.Contains(err.Error(), sub)
Contains(text, sub) == \E i \in 1..Len(text) : text[i] = sub

\* OnError's first case
IsNotFound(statusCode) == statusCode = 404

IsBlocked_no429(statusCode) == statusCode = 403 \/ statusCode = 503

\* OnError's second case
IsBlocked(statusCode) == statusCode = 403 \/ statusCode = 429 \/ statusCode = 503

IsConnError_any(err) == err # NoError

\* OnError's third case
IsConnError(err) ==
  /\ err # NoError
  /\ \/ Contains(err, "timeout")
     \/ Contains(err, "connection refused")
     \/ Contains(err, "EOF")

\* OnError's switch: "mark" = MarkVisited and no retry, "retry" = shouldRetry,
\* "skip" = the default case
OnErrorCase(statusCode, err) ==
  IF IsNotFound(statusCode) THEN "mark"
  ELSE IF IsBlocked(statusCode) THEN "retry"
  ELSE IF IsConnError(err) THEN "retry"
  ELSE "skip"

EvictsProxy_never(shouldRetry, proxyURL) == FALSE

\* OnError calls RemoveProxy
EvictsProxy(shouldRetry, proxyURL) == shouldRetry /\ proxyURL # ""

\* the collector holds no request for a URL
NoRequest == [st |-> "none", proxyURL |-> "", evicted |-> FALSE]

\* no handler has been called
NoHist == [status |-> 0, err |-> NoError, case |-> "none"]

\* state the crawler is in while only the pool or the store is exercised
CrawlIdle ==
  /\ req = [u \in Targets |-> NoRequest]
  /\ hist = NoHist
  /\ sink = [u \in Targets |-> 0]
  /\ fileOpen = TRUE
  /\ prevProxy = [u \in Targets |-> ""]
  /\ freshViolated = FALSE
  /\ viaSuccess = {}
  /\ dispatched = {}
  /\ prior = {}
  /\ sd = "run"
  /\ linksLeft = 0
  /\ attemptsLeft = 0

\* state the dedup store is in while only the pool is exercised
StoreIdle ==
  /\ dbOpen = TRUE
  /\ bucket = << >>
  /\ clock = 0
  /\ marked = [k \in Keys |-> 0]
  /\ last = [op |-> "none", key |-> "", res |-> "none"]

\* NewProxyManager: empty pool, then one synchronous fetchProxies whose
\* failure is logged and leaves the pool empty
Init ==
  /\ \E r \in Responses :
       proxies = IF FetchFails(r) THEN <<>> ELSE ParseBody(r.body)
  /\ currentIndex = 0
  /\ isRefreshing = FALSE
  /\ minThreshold = Threshold
  /\ lock = "free"
  /\ pc = [p \in Procs |-> IF p = Async THEN "off" ELSE "idle"]
  /\ goWaiting = [fresh |-> 0, burst |-> 0]
  /\ aBurst = FALSE
  /\ newProxies = [p \in Procs |-> <<>>]
  /\ fres = [p \in Procs |-> "none"]
  /\ loc = [w \in Workers |-> NoCall]
  /\ returned = ReturnOf(NoCall, "none", "none")
  /\ callsLeft = MaxCalls
  /\ recent = <<>>
  /\ StoreIdle
  /\ CrawlIdle

\* a GetProxy that goes into its synchronous refresh without RUnlock
GetProxy_count_keepsLock(w) ==
  /\ pc[w] = "idle"
  /\ callsLeft > 0
  /\ lock = "free"
  /\ callsLeft' = callsLeft - 1
  /\ loc' = [loc EXCEPT ![w] = [NoCall EXCEPT !.op = "get",
                                              !.proxyCount = Len(proxies),
                                              !.sawEmpty = (Len(proxies) = 0)]]
  /\ pc' = [pc EXCEPT ![w] = IF NeedsSyncRefresh(Len(proxies)) THEN "f_call" ELSE "g_water"]
  /\ lock' = IF NeedsSyncRefresh(Len(proxies)) THEN w ELSE lock
  /\ UNCHANGED <<proxies, currentIndex, isRefreshing, minThreshold, goWaiting, aBurst,
                 newProxies, fres, returned, recent>>
  /\ UNCHANGED storeVars
  /\ UNCHANGED crawlVars

\* GetProxy, lines 127-132: count under the read lock, then branch on empty
GetProxy_count(w) ==
  /\ pc[w] = "idle"
  /\ callsLeft > 0
  /\ lock = "free"
  /\ callsLeft' = callsLeft - 1
  /\ loc' = [loc EXCEPT ![w] = [NoCall EXCEPT !.op = "get",
                                              !.proxyCount = Len(proxies),
                                              !.sawEmpty = (Len(proxies) = 0)]]
  /\ pc' = [pc EXCEPT ![w] = IF NeedsSyncRefresh(Len(proxies)) THEN "f_call" ELSE "g_water"]
  /\ UNCHANGED <<sharedVars, goWaiting, aBurst, newProxies, fres, returned, recent>>
  /\ UNCHANGED storeVars
  /\ UNCHANGED crawlVars

FetchCall_holdingLock(p) ==
  /\ pc[p] = "f_call"
  /\ lock = "free"
  /\ lock' = p
  /\ pc' = [pc EXCEPT ![p] = "f_wait"]
  /\ loc' = IF p \in Workers THEN [loc EXCEPT ![p].syncCalls = @ + 1] ELSE loc
  /\ UNCHANGED <<proxies, currentIndex, isRefreshing, minThreshold, goWaiting, aBurst,
                 newProxies, fres, returned, callsLeft, recent>>
  /\ UNCHANGED storeVars
  /\ UNCHANGED crawlVars

\* fetchProxies, line 60: the GET to the supplier is sent; pm.lock is not held
FetchCall(p) ==
  /\ pc[p] = "f_call"
  /\ pc' = [pc EXCEPT ![p] = "f_wait"]
  /\ loc' = IF p \in Workers THEN [loc EXCEPT ![p].syncCalls = @ + 1] ELSE loc
  /\ UNCHANGED <<sharedVars, goWaiting, aBurst, newProxies, fres, returned, callsLeft,
                 recent>>
  /\ UNCHANGED storeVars
  /\ UNCHANGED crawlVars

FetchFail_wipes(p) ==
  /\ pc[p] = "f_wait"
  /\ \E r \in Responses : FetchFails(r)
  /\ proxies' = <<>>
  /\ currentIndex' = 0
  /\ fres' = [fres EXCEPT ![p] = "err"]
  /\ pc' = [pc EXCEPT ![p] = "f_ret"]
  /\ UNCHANGED <<isRefreshing, minThreshold, lock, goWaiting, aBurst, newProxies, loc,
                 returned, callsLeft, recent>>
  /\ UNCHANGED storeVars
  /\ UNCHANGED crawlVars

\* fetchProxies, lines 60-75: the call fails and fetchProxies returns the error
FetchFail(p) ==
  /\ pc[p] = "f_wait"
  /\ \E r \in Responses : FetchFails(r)
  /\ fres' = [fres EXCEPT ![p] = "err"]
  /\ pc' = [pc EXCEPT ![p] = "f_ret"]
  /\ UNCHANGED <<sharedVars, goWaiting, aBurst, newProxies, loc, returned, callsLeft,
                 recent>>
  /\ UNCHANGED storeVars
  /\ UNCHANGED crawlVars

\* fetchProxies, lines 60-96: no early return; the body is parsed into newProxies
FetchParse(p) ==
  /\ pc[p] = "f_wait"
  /\ \E r \in Responses :
       /\ ~FetchFails(r)
       /\ newProxies' = [newProxies EXCEPT ![p] = ParseBody(r.body)]
  /\ pc' = [pc EXCEPT ![p] = "f_lock"]
  /\ UNCHANGED <<sharedVars, goWaiting, aBurst, fres, loc, returned, callsLeft, recent>>
  /\ UNCHANGED storeVars
  /\ UNCHANGED crawlVars

\* fetchProxies, line 99: pm.lock.Lock()
FetchLock(p) ==
  /\ pc[p] = "f_lock"
  /\ lock = "free"
  /\ lock' = p
  /\ pc' = [pc EXCEPT ![p] = "f_install"]
  /\ UNCHANGED <<proxies, currentIndex, isRefreshing, minThreshold, goWaiting, aBurst,
                 newProxies, fres, loc, returned, callsLeft, recent>>
  /\ UNCHANGED storeVars
  /\ UNCHANGED crawlVars

\* fetchProxies, lines 100-105: replace the list, reset the index, unlock, return nil
FetchInstall(p) ==
  /\ pc[p] = "f_install"
  /\ lock = p
  /\ proxies' = newProxies[p]
  /\ currentIndex' = 0
  /\ lock' = "free"
  /\ newProxies' = [newProxies EXCEPT ![p] = <<>>]
  /\ fres' = [fres EXCEPT ![p] = "ok"]
  /\ pc' = [pc EXCEPT ![p] = "f_ret"]
  /\ recent' = <<>>
  /\ loc' = IF p \in Workers THEN [loc EXCEPT ![p].installedAny = (Len(newProxies[p]) > 0)] ELSE loc
  /\ UNCHANGED <<isRefreshing, minThreshold, goWaiting, aBurst, returned, callsLeft>>
  /\ UNCHANGED storeVars
  /\ UNCHANGED crawlVars

\* GetProxy, lines 134-136: the synchronous refresh failed, return the error
GetProxy_refreshFailed(w) ==
  /\ w \in Workers
  /\ pc[w] = "f_ret"
  /\ fres[w] = "err"
  /\ returned' = ReturnOf(loc[w], fres[w], "errRefresh")
  /\ loc' = [loc EXCEPT ![w] = NoCall]
  /\ fres' = [fres EXCEPT ![w] = "none"]
  /\ pc' = [pc EXCEPT ![w] = "idle"]
  /\ UNCHANGED <<sharedVars, goWaiting, aBurst, newProxies, callsLeft, recent>>
  /\ UNCHANGED storeVars
  /\ UNCHANGED crawlVars

\* a GetProxy that goes on to select without testing its second count
GetProxy_recount_unchecked(w) ==
  /\ w \in Workers
  /\ pc[w] = "f_ret"
  /\ fres[w] = "ok"
  /\ lock = "free"
  /\ loc' = [loc EXCEPT ![w].proxyCount = Len(proxies)]
  /\ pc' = [pc EXCEPT ![w] = "g_water"]
  /\ UNCHANGED <<sharedVars, goWaiting, aBurst, newProxies, fres, returned, callsLeft,
                 recent>>
  /\ UNCHANGED storeVars
  /\ UNCHANGED crawlVars

\* GetProxy, lines 137-145: count again under the read lock; still empty is an error
GetProxy_recount(w) ==
  /\ w \in Workers
  /\ pc[w] = "f_ret"
  /\ fres[w] = "ok"
  /\ lock = "free"
  /\ IF Len(proxies) = 0
     THEN /\ returned' = ReturnOf(loc[w], fres[w], "errStillEmpty")
          /\ loc' = [loc EXCEPT ![w] = NoCall]
          /\ fres' = [fres EXCEPT ![w] = "none"]
          /\ pc' = [pc EXCEPT ![w] = "idle"]
     ELSE /\ loc' = [loc EXCEPT ![w].proxyCount = Len(proxies)]
          /\ pc' = [pc EXCEPT ![w] = "g_water"]
          /\ UNCHANGED <<returned, fres>>
  /\ UNCHANGED <<sharedVars, goWaiting, aBurst, newProxies, callsLeft, recent>>
  /\ UNCHANGED storeVars
  /\ UNCHANGED crawlVars

\* GetProxy, lines 147-150: below the threshold, start asyncRefresh and go on
GetProxy_watermark(w) ==
  /\ pc[w] = "g_water"
  /\ IF BelowThreshold(loc[w].proxyCount, minThreshold)
     THEN /\ goWaiting' = GoAsyncRefresh(goWaiting)
          /\ loc' = [loc EXCEPT ![w].trig = TRUE]
     ELSE UNCHANGED <<goWaiting, loc>>
  /\ pc' = [pc EXCEPT ![w] = "g_lock"]
  /\ UNCHANGED <<sharedVars, aBurst, newProxies, fres, returned, callsLeft, recent>>
  /\ UNCHANGED storeVars
  /\ UNCHANGED crawlVars

\* GetProxy, line 153: pm.lock.Lock()
GetProxy_lock(w) ==
  /\ pc[w] = "g_lock"
  /\ lock = "free"
  /\ lock' = w
  /\ pc' = [pc EXCEPT ![w] = "g_pick"]
  /\ UNCHANGED <<proxies, currentIndex, isRefreshing, minThreshold, goWaiting, aBurst,
                 newProxies, fres, loc, returned, callsLeft, recent>>
  /\ UNCHANGED storeVars
  /\ UNCHANGED crawlVars

\* GetProxy, lines 154-171: empty is an error; else return proxies[currentIndex]
\* and advance the index; an index past the end is Go's index-out-of-range
\* panic, raised with pm.lock still held
GetProxy_pick(w) ==
  /\ pc[w] = "g_pick"
  /\ lock = w
  /\ IF Len(proxies) = 0
     THEN /\ returned' = ReturnOf(loc[w], fres[w], "errNoProxy")
          /\ pc' = [pc EXCEPT ![w] = "idle"]
          /\ lock' = "free"
          /\ UNCHANGED <<currentIndex, recent>>
     ELSE IF currentIndex < 0 \/ currentIndex >= Len(proxies)
          THEN /\ returned' = ReturnOf(loc[w], fres[w], "panic")
               /\ pc' = [pc EXCEPT ![w] = "panic"]
               /\ UNCHANGED <<lock, currentIndex, recent>>
          ELSE /\ returned' = ReturnOf(loc[w], fres[w], "proxy")
               /\ currentIndex' = NextIndex(currentIndex, Len(proxies))
               /\ recent' = LastN(Append(recent, proxies[currentIndex + 1]), Len(proxies))
               /\ pc' = [pc EXCEPT ![w] = "idle"]
               /\ lock' = "free"
  /\ loc' = [loc EXCEPT ![w] = NoCall]
  /\ fres' = [fres EXCEPT ![w] = "none"]
  /\ UNCHANGED <<proxies, isRefreshing, minThreshold, goWaiting, aBurst, newProxies,
                 callsLeft>>
  /\ UNCHANGED storeVars
  /\ UNCHANGED crawlVars

\* RemoveProxy, line 198: pm.lock.Lock()
RemoveProxy_lock(w, x) ==
  /\ pc[w] = "idle"
  /\ callsLeft > 0
  /\ lock = "free"
  /\ lock' = w
  /\ callsLeft' = callsLeft - 1
  /\ loc' = [loc EXCEPT ![w] = [NoCall EXCEPT !.op = "remove", !.arg = x]]
  /\ pc' = [pc EXCEPT ![w] = "r_body"]
  /\ UNCHANGED <<proxies, currentIndex, isRefreshing, minThreshold, goWaiting, aBurst,
                 newProxies, fres, returned, recent>>
  /\ UNCHANGED storeVars
  /\ UNCHANGED crawlVars

\* RemoveProxy, lines 202-223: remove the first match, adjust the index, start
\* asyncRefresh below the threshold; warn when there is no match; unlock
RemoveProxy_body(w) ==
  /\ pc[w] = "r_body"
  /\ lock = w
  /\ lock' = "free"
  /\ LET i == IndexOf(proxies, loc[w].arg)
         rest == IF i > 0 THEN RemoveAt(proxies, i) ELSE proxies
         go == RemoveTriggers(i > 0, Len(rest), minThreshold)
     IN  /\ proxies' = rest
         /\ currentIndex' = IF i > 0 THEN RemoveAdjust(currentIndex, Len(rest))
                                      ELSE currentIndex
         /\ recent' = IF i > 0 THEN <<>> ELSE recent
         /\ goWaiting' = IF go THEN GoAsyncRefresh(goWaiting) ELSE goWaiting
         /\ returned' = ReturnOf([loc[w] EXCEPT !.trig = go], fres[w],
                                 IF i > 0 THEN "removed" ELSE "absent")
  /\ loc' = [loc EXCEPT ![w] = NoCall]
  /\ pc' = [pc EXCEPT ![w] = "idle"]
  /\ UNCHANGED <<isRefreshing, minThreshold, aBurst, newProxies, fres, callsLeft>>
  /\ UNCHANGED storeVars
  /\ UNCHANGED crawlVars

\* asyncRefresh, lines 176-189: a started goroutine gets refreshLock, returns at
\* once when isRefreshing is set, else sets it and goes on to fetchProxies
asyncRefresh_enter(b) ==
  /\ pc[Async] = "off"
  /\ IF b THEN goWaiting.burst > 0 ELSE goWaiting.fresh > 0
  /\ goWaiting' = IF b THEN [goWaiting EXCEPT !.burst = @ - 1]
                       ELSE [goWaiting EXCEPT !.fresh = @ - 1]
  /\ IF isRefreshing
     THEN UNCHANGED <<pc, isRefreshing, aBurst>>
     ELSE /\ isRefreshing' = TRUE
          /\ aBurst' = b
          /\ pc' = [pc EXCEPT ![Async] = "f_call"]
  /\ UNCHANGED <<proxies, currentIndex, minThreshold, lock, newProxies, fres, loc,
                 returned, callsLeft, recent>>
  /\ UNCHANGED storeVars
  /\ UNCHANGED crawlVars

\* asyncRefresh, lines 185-193: fetchProxies is back (its error only logged);
\* the deferred calls clear isRefreshing and release refreshLock
asyncRefresh_exit ==
  /\ pc[Async] = "f_ret"
  /\ isRefreshing' = FALSE
  /\ aBurst' = FALSE
  /\ fres' = [fres EXCEPT ![Async] = "none"]
  /\ pc' = [pc EXCEPT ![Async] = "off"]
  /\ UNCHANGED <<proxies, currentIndex, minThreshold, lock, goWaiting, newProxies, loc,
                 returned, callsLeft, recent>>
  /\ UNCHANGED storeVars
  /\ UNCHANGED crawlVars

\* every step fetchProxies can take for its caller p
FetchStep(p) ==
  \/ FetchCall(p)
  \/ FetchFail(p)
  \/ FetchParse(p)
  \/ FetchLock(p)
  \/ FetchInstall(p)

\* every step worker w can take
WorkerStep(w) ==
  \/ GetProxy_count(w)
  \/ FetchStep(w)
  \/ GetProxy_refreshFailed(w)
  \/ GetProxy_recount(w)
  \/ GetProxy_watermark(w)
  \/ GetProxy_lock(w)
  \/ GetProxy_pick(w)
  \/ \E x \in Addresses : RemoveProxy_lock(w, x)
  \/ RemoveProxy_body(w)

\* every step of the asyncRefresh goroutines
AsyncStep ==
  \/ \E b \in BOOLEAN : asyncRefresh_enter(b)
  \/ FetchStep(Async)
  \/ asyncRefresh_exit

Next ==
  \/ \E w \in Workers : WorkerStep(w)
  \/ AsyncStep

Spec == Init /\ [][Next]_vars

\* ------------------------------------------------- the pool on a longer list
\* a response body of three lines
LongBody == <<"h1", "nl", "https://", "h2", "nl", "h3", "nl">>

\* NewProxyManager whose fetchProxies got the three addresses of LongBody
EvictInit ==
  /\ proxies = ParseBody(LongBody)
  /\ currentIndex = 0
  /\ isRefreshing = FALSE
  /\ minThreshold = Threshold
  /\ lock = "free"
  /\ pc = [p \in Procs |-> IF p = Async THEN "off" ELSE "idle"]
  /\ goWaiting = [fresh |-> 0, burst |-> 0]
  /\ aBurst = FALSE
  /\ newProxies = [p \in Procs |-> <<>>]
  /\ fres = [p \in Procs |-> "none"]
  /\ loc = [w \in Workers |-> NoCall]
  /\ returned = ReturnOf(NoCall, "none", "none")
  /\ callsLeft = MaxCalls
  /\ recent = <<>>
  /\ StoreIdle
  /\ CrawlIdle

EvictSpec == EvictInit /\ [][Next]_vars

\* --------------------------------- fetchProxies' critical section by statement
\* Lines 99-102 taken one statement at a time, so that the state between the
\* two assignments exists; every other step of the pool is the one of Spec.

\* fetchProxies, line 99: pm.lock.Lock()
Replace_lock(p) ==
  /\ pc[p] = "f_lock"
  /\ lock = "free"
  /\ lock' = p
  /\ pc' = [pc EXCEPT ![p] = "f_assign"]
  /\ UNCHANGED <<proxies, currentIndex, isRefreshing, minThreshold, goWaiting, aBurst,
                 newProxies, fres, loc, returned, callsLeft, recent>>
  /\ UNCHANGED storeVars
  /\ UNCHANGED crawlVars

\* a fetchProxies that unlocks pm.lock between its two assignments
Replace_list_unlocked(p) ==
  /\ pc[p] = "f_assign"
  /\ lock = p
  /\ proxies' = newProxies[p]
  /\ recent' = <<>>
  /\ lock' = "free"
  /\ pc' = [pc EXCEPT ![p] = "f_reset"]
  /\ UNCHANGED <<currentIndex, isRefreshing, minThreshold, goWaiting, aBurst,
                 newProxies, fres, loc, returned, callsLeft>>
  /\ UNCHANGED storeVars
  /\ UNCHANGED crawlVars

\* fetchProxies, line 100: pm.proxies = newProxies
Replace_list(p) ==
  /\ pc[p] = "f_assign"
  /\ lock = p
  /\ proxies' = newProxies[p]
  /\ recent' = <<>>
  /\ pc' = [pc EXCEPT ![p] = "f_reset"]
  /\ UNCHANGED <<currentIndex, isRefreshing, minThreshold, lock, goWaiting, aBurst,
                 newProxies, fres, loc, returned, callsLeft>>
  /\ UNCHANGED storeVars
  /\ UNCHANGED crawlVars

\* fetchProxies, lines 101-105: pm.currentIndex = 0, pm.lock.Unlock(), return nil
Replace_index(p) ==
  /\ pc[p] = "f_reset"
  /\ lock = p
  /\ currentIndex' = 0
  /\ lock' = "free"
  /\ newProxies' = [newProxies EXCEPT ![p] = <<>>]
  /\ fres' = [fres EXCEPT ![p] = "ok"]
  /\ pc' = [pc EXCEPT ![p] = "f_ret"]
  /\ loc' = IF p \in Workers THEN [loc EXCEPT ![p].installedAny = (Len(newProxies[p]) > 0)] ELSE loc
  /\ UNCHANGED <<proxies, isRefreshing, minThreshold, goWaiting, aBurst, returned,
                 callsLeft, recent>>
  /\ UNCHANGED storeVars
  /\ UNCHANGED crawlVars

\* every step fetchProxies can take for its caller p
ReplaceStep(p) ==
  \/ FetchCall(p)
  \/ FetchFail(p)
  \/ FetchParse(p)
  \/ Replace_lock(p)
  \/ Replace_list(p)
  \/ Replace_index(p)

\* the steps of acquire and evict that read or write the list or the cursor,
\* or take pm.lock to do so (Count is the read of GetProxy_count)
Observes(w) ==
  \/ GetProxy_count(w)
  \/ GetProxy_recount(w)
  \/ GetProxy_lock(w)
  \/ GetProxy_pick(w)
  \/ \E x \in Addresses : RemoveProxy_lock(w, x)
  \/ RemoveProxy_body(w)

ReplaceNext ==
  \/ \E w \in Workers : Observes(w)
  \/ \E w \in Workers : GetProxy_refreshFailed(w)
  \/ \E w \in Workers : GetProxy_watermark(w)
  \/ \E p \in Procs : ReplaceStep(p)
  \/ \E b \in BOOLEAN : asyncRefresh_enter(b)
  \/ asyncRefresh_exit

ReplaceSpec == Init /\ [][ReplaceNext]_vars

\* ------------------------------------------------------------- BoltStorage
\* state the proxy pool is in while only the dedup store is exercised
PoolIdle ==
  /\ proxies = <<>>
  /\ currentIndex = 0
  /\ isRefreshing = FALSE
  /\ minThreshold = Threshold
  /\ lock = "free"
  /\ pc = [p \in Procs |-> IF p = Async THEN "off" ELSE "idle"]
  /\ goWaiting = [fresh |-> 0, burst |-> 0]
  /\ aBurst = FALSE
  /\ newProxies = [p \in Procs |-> <<>>]
  /\ fres = [p \in Procs |-> "none"]
  /\ loc = [w \in Workers |-> NoCall]
  /\ returned = ReturnOf(NoCall, "none", "none")
  /\ callsLeft = 0
  /\ recent = <<>>

\* NewBoltStorage on a new database file: the file is open, the bucket is
\* created and holds nothing
StoreInit ==
  /\ PoolIdle
  /\ StoreIdle
  /\ CrawlIdle

OpenedBucket_truncated(b) == << >>

\* what NewBoltStorage's CreateBucketIfNotExists leaves in a bucket that exists
OpenedBucket(b) == b

\* IsVisited that answers true when db.View reports a fault
IsVisitedResult_failClosed(k) == ~dbOpen \/ k \in DOMAIN bucket

\* what IsVisited returns: db.View fails on a closed database (logged, false);
\* else whether b.Get finds a value under the key
IsVisitedResult(k) == dbOpen /\ k \in DOMAIN bucket

\* what MarkVisited returns: db.Update fails on a closed database, b.Put
\* refuses the empty key, and any other key is written
MarkVisitedResult(k) ==
  IF ~dbOpen THEN "err" ELSE IF k = "" THEN "err" ELSE "ok"

\* the bucket after b.Put(key, timestamp): the key is added or its value replaced
Put(b, k, t) == [x \in (DOMAIN b) \cup {k} |-> IF x = k THEN t ELSE b[x]]

\* MarkVisited(url)
MarkVisited(k) ==
  /\ IF MarkVisitedResult(k) = "ok"
     THEN /\ bucket' = Put(bucket, k, clock)
          /\ marked' = [marked EXCEPT ![k] = IF @ = 0 THEN 1 ELSE 2]
     ELSE UNCHANGED <<bucket, marked>>
  /\ last' = [op |-> "MarkVisited", key |-> k, res |-> MarkVisitedResult(k)]
  /\ UNCHANGED <<dbOpen, clock>>
  /\ UNCHANGED poolVars
  /\ UNCHANGED crawlVars

\* IsVisited(url)
IsVisited(k) ==
  /\ last' = [op |-> "IsVisited", key |-> k,
              res |-> IF IsVisitedResult(k) THEN "true" ELSE "false"]
  /\ UNCHANGED <<dbOpen, bucket, clock, marked>>
  /\ UNCHANGED poolVars
  /\ UNCHANGED crawlVars

\* Close(): s.db is never nil after NewBoltStorage; db.Close() closes the file
Close ==
  /\ dbOpen' = FALSE
  /\ last' = [op |-> "Close", key |-> "", res |-> "ok"]
  /\ UNCHANGED <<bucket, clock, marked>>
  /\ UNCHANGED poolVars
  /\ UNCHANGED crawlVars

\* NewBoltStorage on the same file after a Close (a restart): bolt.Open, then
\* CreateBucketIfNotExists; while the file is still open bolt.Open times out
NewBoltStorage ==
  /\ IF dbOpen
     THEN /\ last' = [op |-> "NewBoltStorage", key |-> "", res |-> "err"]
          /\ UNCHANGED <<dbOpen, bucket>>
     ELSE /\ dbOpen' = TRUE
          /\ bucket' = OpenedBucket(bucket)
          /\ last' = [op |-> "NewBoltStorage", key |-> "", res |-> "ok"]
  /\ UNCHANGED <<clock, marked>>
  /\ UNCHANGED poolVars
  /\ UNCHANGED crawlVars

\* time passes
Tick ==
  /\ clock < MaxTime
  /\ clock' = clock + 1
  /\ UNCHANGED <<dbOpen, bucket, marked, last>>
  /\ UNCHANGED poolVars
  /\ UNCHANGED crawlVars

StoreNext ==
  \/ \E k \in Keys : MarkVisited(k)
  \/ \E k \in Keys : IsVisited(k)
  \/ Close
  \/ NewBoltStorage
  \/ Tick

StoreSpec == StoreInit /\ [][StoreNext]_vars

\* ------------------------------------------------------- crawler (main.go)
\* The collector's workers, the handlers main.go registers, and the two ways
\* the process ends.  GetProxy and RemoveProxy take effect in one step here
\* (RemoveProxy holds pm.lock throughout), and so does each asyncRefresh
\* goroutine; the steps inside GetProxy and fetchProxies are interleaved in
\* Spec.

\* the process has ended: main returned, log.Fatalf (lines 73, 86, 148) or the
\* signal goroutine called os.Exit
Exited == sd.main \in {"done", "fatal"} \/ sd.sig = "done"

\* the global storage is nil until line 71 has assigned it
StorageNil == sd.main = "newStorage"

\* the global outputFile is nil until line 84 has assigned it
OutputFileNil == sd.main \in {"newStorage", "newProxyManager", "openFile"}

\* state after main's steps 1-3 of a run: the store file of the earlier runs
\* is open, the pool holds what the first fetchProxies gave, the output file is
\* open, and no request exists
CrawlInit ==
  /\ \E r \in Responses :
       proxies = IF FetchFails(r) THEN <<>> ELSE ParseBody(r.body)
  /\ currentIndex = 0
  /\ isRefreshing = FALSE
  /\ minThreshold = Threshold
  /\ lock = "free"
  /\ pc = [p \in Procs |-> IF p = Async THEN "off" ELSE "idle"]
  /\ goWaiting = [fresh |-> 0, burst |-> 0]
  /\ aBurst = FALSE
  /\ newProxies = [p \in Procs |-> <<>>]
  /\ fres = [p \in Procs |-> "none"]
  /\ loc = [w \in Workers |-> NoCall]
  /\ returned = ReturnOf(NoCall, "none", "none")
  /\ callsLeft = 0
  /\ recent = <<>>
  /\ dbOpen = TRUE
  /\ \E P \in SUBSET Targets :
       /\ prior = P
       /\ bucket = [k \in P |-> 0]
       /\ marked = [k \in Keys |-> IF k \in P THEN 1 ELSE 0]
  /\ clock = 0
  /\ last = [op |-> "NewBoltStorage", key |-> "", res |-> "ok"]
  /\ req = [u \in Targets |-> NoRequest]
  /\ hist = NoHist
  /\ sink = [u \in Targets |-> 0]
  /\ fileOpen = TRUE
  /\ prevProxy = [u \in Targets |-> ""]
  /\ freshViolated = FALSE
  /\ viaSuccess = {}
  /\ dispatched = {}
  /\ sd = [main |-> "run", sig |-> "wait"]
  /\ linksLeft = MaxLinks
  /\ attemptsLeft = MaxAttempts

\* storage.MarkVisited(u) inside a handler: the store after the call
StoreMarks(u) ==
  /\ IF MarkVisitedResult(u) = "ok"
     THEN /\ bucket' = Put(bucket, u, clock)
          /\ marked' = [marked EXCEPT ![u] = IF @ = 0 THEN 1 ELSE 2]
     ELSE UNCHANGED <<bucket, marked>>
  /\ UNCHANGED <<dbOpen, clock, last>>

\* the .makers handler, lines 235-247, on one "li a" link: skip a URL the
\* store holds, else el.Request.Visit(phoneURL)
Makers_link(u) ==
  /\ ~Exited
  /\ sd.main = "run"
  /\ linksLeft > 0
  /\ req[u].st = "none"
  /\ linksLeft' = linksLeft - 1
  /\ IF IsVisitedResult(u)
     THEN UNCHANGED <<req, dispatched>>
     ELSE /\ req' = [req EXCEPT ![u] = [NoRequest EXCEPT !.st = "queued"]]
          /\ dispatched' = dispatched \cup {u}
  /\ UNCHANGED <<hist, sink, fileOpen, prevProxy, freshViolated, viaSuccess, prior, sd,
                 attemptsLeft>>
  /\ UNCHANGED poolVars
  /\ UNCHANGED storeVars

\* the attempt of u goes out through address p
Sent(u, p) ==
  /\ req' = [req EXCEPT ![u] = [NoRequest EXCEPT !.st = "sent", !.proxyURL = p]]
  /\ freshViolated' = (freshViolated \/ (prevProxy[u] # "" /\ p = prevProxy[u]))
  /\ prevProxy' = [prevProxy EXCEPT ![u] = ""]

\* the attempt of u ends without a proxy: GetProxy's error is the error of
\* the request, which has no response (status 0) and no ProxyURL
NotSent(u) ==
  /\ req' = [req EXCEPT ![u] = [NoRequest EXCEPT !.st = "nosend"]]
  /\ UNCHANGED <<freshViolated, prevProxy>>

\* GetProxy, lines 147-163, on a pool that holds list with the cursor at idx
PickFrom(u, list, idx) ==
  /\ goWaiting' = IF BelowThreshold(Len(list), minThreshold)
                  THEN GoAsyncRefresh(goWaiting) ELSE goWaiting
  /\ proxies' = list
  /\ currentIndex' = NextIndex(idx, Len(list))
  /\ Sent(u, list[idx + 1])

\* a worker starts the attempt of a queued URL: the transport asks GetProxy
\* (c.SetProxyFunc, line 138) for the proxy of the request
Fetch_acquire(u) ==
  /\ ~Exited
  /\ req[u].st = "queued"
  /\ attemptsLeft > 0
  /\ lock = "free"
  /\ attemptsLeft' = attemptsLeft - 1
  /\ IF NeedsSyncRefresh(Len(proxies))
     THEN \E r \in Responses :
            IF FetchFails(r)
            THEN /\ NotSent(u)
                 /\ UNCHANGED <<proxies, currentIndex, goWaiting>>
            ELSE IF Len(ParseBody(r.body)) = 0
                 THEN /\ NotSent(u)
                      /\ proxies' = <<>>
                      /\ currentIndex' = 0
                      /\ UNCHANGED goWaiting
                 ELSE PickFrom(u, ParseBody(r.body), 0)
     ELSE PickFrom(u, proxies, currentIndex)
  /\ UNCHANGED <<isRefreshing, minThreshold, lock, pc, aBurst, newProxies, fres, loc,
                 returned, callsLeft, recent>>
  /\ UNCHANGED <<hist, sink, fileOpen, viaSuccess, dispatched, prior, sd, linksLeft>>
  /\ UNCHANGED storeVars

\* the failures the collector hands to OnError for an attempt of a request:
\* any failed outcome when the fetch went out, GetProxy's error (no response,
\* status 0; its text wraps the supplier call's error) when it did not
FailuresOf(r) ==
  IF r.st = "sent"
  THEN {o \in Outcomes : o.err # NoError}
  ELSE IF r.st = "nosend"
  THEN {o \in Outcomes : o.status = 0 /\ o.err # NoError}
  ELSE {}

\* OnError, lines 173-205, called with the failure o of u's attempt: the
\* switch.  404 marks the URL (the result of MarkVisited is dropped) and
\* returns, the default case logs and returns, the two retry cases set
\* shouldRetry
OnError_switch(u, o) ==
  /\ ~Exited
  /\ o \in FailuresOf(req[u])
  /\ LET c == OnErrorCase(o.status, o.err)
         h == [status |-> o.status, err |-> o.err, case |-> c]
     IN  IF c = "mark"
         THEN /\ StoreMarks(u)
              /\ hist' = h
              /\ req' = [req EXCEPT ![u] = NoRequest]
         ELSE IF c = "retry"
         THEN /\ req' = [req EXCEPT ![u].st = "evict"]
              /\ hist' = h
              /\ UNCHANGED storeVars
         ELSE /\ hist' = h
              /\ req' = [req EXCEPT ![u] = NoRequest]
              /\ UNCHANGED storeVars
  /\ UNCHANGED <<sink, fileOpen, prevProxy, freshViolated, viaSuccess, dispatched, prior,
                 sd, linksLeft, attemptsLeft>>
  /\ UNCHANGED poolVars

\* OnError, lines 208-211: with shouldRetry set, RemoveProxy(proxyURL) unless
\* the request carries no proxy
OnError_evict(u) ==
  /\ ~Exited
  /\ req[u].st = "evict"
  /\ lock = "free"
  /\ IF EvictsProxy(TRUE, req[u].proxyURL)
     THEN LET i == IndexOf(proxies, req[u].proxyURL)
              rest == IF i > 0 THEN RemoveAt(proxies, i) ELSE proxies
              go == RemoveTriggers(i > 0, Len(rest), minThreshold)
          IN  /\ proxies' = rest
              /\ currentIndex' = IF i > 0 THEN RemoveAdjust(currentIndex, Len(rest))
                                           ELSE currentIndex
              /\ goWaiting' = IF go THEN GoAsyncRefresh(goWaiting) ELSE goWaiting
              /\ req' = [req EXCEPT ![u].st = "retry", ![u].evicted = TRUE]
     ELSE /\ req' = [req EXCEPT ![u].st = "retry"]
          /\ UNCHANGED <<proxies, currentIndex, goWaiting>>
  /\ UNCHANGED <<isRefreshing, minThreshold, lock, pc, aBurst, newProxies, fres, loc,
                 returned, callsLeft, recent>>
  /\ UNCHANGED <<hist, sink, fileOpen, prevProxy, freshViolated, viaSuccess, dispatched,
                 prior, sd, linksLeft, attemptsLeft>>
  /\ UNCHANGED storeVars

\* OnError, lines 213-217: r.Request.Retry() hands the same request back to
\* the collector (asynchronous, line 118; Retry makes no store check)
OnError_retry(u) ==
  /\ ~Exited
  /\ req[u].st = "retry"
  /\ prevProxy' = [prevProxy EXCEPT ![u] = req[u].proxyURL]
  /\ req' = [req EXCEPT ![u] = [NoRequest EXCEPT !.st = "queued"]]
  /\ UNCHANGED <<hist, sink, fileOpen, freshViolated, viaSuccess, dispatched, prior, sd,
                 linksLeft, attemptsLeft>>
  /\ UNCHANGED poolVars
  /\ UNCHANGED storeVars

\* the #specs-list handler, lines 260-275, called for the page (status 200,
\* no error) u's fetch brought: return for an element that is not the
\* specification list, and for a URL the store holds
OnHTML_check(u, isSpecsList) ==
  /\ ~Exited
  /\ req[u].st = "sent"
  /\ req' = [req EXCEPT ![u] = IF ~isSpecsList \/ IsVisitedResult(u)
                               THEN NoRequest ELSE [@ EXCEPT !.st = "save"]]
  /\ hist' = [status |-> StatusOK, err |-> NoError, case |-> "page"]
  /\ UNCHANGED storeVars
  /\ UNCHANGED <<sink, fileOpen, prevProxy, freshViolated, viaSuccess, dispatched,
                 prior, sd, linksLeft, attemptsLeft>>
  /\ UNCHANGED poolVars

SaveResults == {"ok", "marshalErr", "writeErr"}

\* savePhone, lines 350-368: the line is in the file when json.Marshal and
\* outputFile.Write both succeed; Write fails on a closed file
SavePhoneWrites(res, open) == res = "ok" /\ open

\* the #specs-list handler, line 311: savePhone(phone), which returns nothing
OnHTML_save(u, res) ==
  /\ ~Exited
  /\ req[u].st = "save"
  /\ sink' = IF SavePhoneWrites(res, fileOpen)
             THEN [sink EXCEPT ![u] = IF @ = 0 THEN 1 ELSE 2] ELSE sink
  /\ req' = [req EXCEPT ![u].st = "mark"]
  /\ UNCHANGED <<hist, fileOpen, prevProxy, freshViolated, viaSuccess, dispatched, prior,
                 sd, linksLeft, attemptsLeft>>
  /\ UNCHANGED poolVars
  /\ UNCHANGED storeVars

\* the #specs-list handler, lines 314-318: MarkVisited(phoneURL), its error logged
OnHTML_mark(u) ==
  /\ ~Exited
  /\ req[u].st = "mark"
  /\ StoreMarks(u)
  /\ viaSuccess' = IF MarkVisitedResult(u) = "ok" THEN viaSuccess \cup {u} ELSE viaSuccess
  /\ req' = [req EXCEPT ![u] = NoRequest]
  /\ UNCHANGED <<hist, sink, fileOpen, prevProxy, freshViolated, dispatched, prior, sd,
                 linksLeft, attemptsLeft>>
  /\ UNCHANGED poolVars

\* the frame of a step that only moves the process towards its end
EndFrame ==
  /\ UNCHANGED <<req, hist, sink, prevProxy, freshViolated, viaSuccess, dispatched, prior,
                 linksLeft, attemptsLeft>>
  /\ UNCHANGED poolVars
  /\ UNCHANGED <<bucket, clock, marked, last>>

\* a signal goroutine that closes the output file first, with the store open
Signal_closeStore_fileFirst ==
  /\ ~Exited
  /\ sd.sig = "wait"
  /\ fileOpen' = IF OutputFileNil THEN fileOpen ELSE FALSE
  /\ sd' = [sd EXCEPT !.sig = "closeFile"]
  /\ UNCHANGED dbOpen
  /\ EndFrame

\* init's goroutine, lines 394-398: a signal arrives, and storage.Close()
\* unless storage is nil
Signal_closeStore ==
  /\ ~Exited
  /\ sd.sig = "wait"
  /\ dbOpen' = IF StorageNil THEN dbOpen ELSE FALSE
  /\ sd' = [sd EXCEPT !.sig = "closeFile"]
  /\ UNCHANGED fileOpen
  /\ EndFrame

\* a signal goroutine that goes on to os.Exit without closing the output file
Signal_closeFile_skipped ==
  /\ ~Exited
  /\ sd.sig = "closeFile"
  /\ sd' = [sd EXCEPT !.sig = "exit"]
  /\ UNCHANGED <<dbOpen, fileOpen>>
  /\ EndFrame

\* init's goroutine, lines 399-401: outputFile.Close() unless outputFile is nil
Signal_closeFile ==
  /\ ~Exited
  /\ sd.sig = "closeFile"
  /\ fileOpen' = IF OutputFileNil THEN fileOpen ELSE FALSE
  /\ sd' = [sd EXCEPT !.sig = "exit"]
  /\ UNCHANGED dbOpen
  /\ EndFrame

\* init's goroutine, line 402: os.Exit(0)
Signal_exit ==
  /\ ~Exited
  /\ sd.sig = "exit"
  /\ sd' = [sd EXCEPT !.sig = "done"]
  /\ UNCHANGED <<dbOpen, fileOpen>>
  /\ EndFrame

\* main, lines 104-109: c.Wait() returns when the collector holds no request
\* and no handler runs; printStats only reads
Main_wait ==
  /\ ~Exited
  /\ sd.main = "run"
  /\ linksLeft = 0
  /\ \A u \in Targets : req[u].st = "none"
  /\ sd' = [sd EXCEPT !.main = "closeFile"]
  /\ UNCHANGED <<dbOpen, fileOpen>>
  /\ EndFrame

\* main returns: the deferred outputFile.Close() of line 88 runs first
Main_closeFile ==
  /\ ~Exited
  /\ sd.main = "closeFile"
  /\ fileOpen' = FALSE
  /\ sd' = [sd EXCEPT !.main = "closeStore"]
  /\ UNCHANGED dbOpen
  /\ EndFrame

\* main returns: the deferred storage.Close() of line 75 runs last
Main_closeStore ==
  /\ ~Exited
  /\ sd.main = "closeStore"
  /\ dbOpen' = FALSE
  /\ sd' = [sd EXCEPT !.main = "done"]
  /\ UNCHANGED fileOpen
  /\ EndFrame

\* one goroutine started by "go pm.asyncRefresh()" runs from refreshLock.Lock()
\* to its return: isRefreshing is clear when it holds refreshLock, so it calls
\* fetchProxies, whose failure is logged and whose list replaces the pool
Crawl_asyncRefresh(r) ==
  /\ ~Exited
  /\ goWaiting.fresh > 0
  /\ lock = "free"
  /\ goWaiting' = [goWaiting EXCEPT !.fresh = @ - 1]
  /\ IF FetchFails(r)
     THEN UNCHANGED <<proxies, currentIndex>>
     ELSE /\ proxies' = ParseBody(r.body)
          /\ currentIndex' = 0
  /\ UNCHANGED <<isRefreshing, minThreshold, lock, pc, aBurst, newProxies, fres, loc,
                 returned, callsLeft, recent>>
  /\ UNCHANGED storeVars
  /\ UNCHANGED crawlVars

CrawlNext ==
  \/ \E u \in Targets : Makers_link(u)
  \/ \E u \in Targets : Fetch_acquire(u)
  \/ \E u \in Targets, o \in CrawlOutcomes : OnError_switch(u, o)
  \/ \E u \in Targets : OnError_evict(u)
  \/ \E u \in Targets : OnError_retry(u)
  \/ \E u \in Targets, b \in BOOLEAN : OnHTML_check(u, b)
  \/ \E u \in Targets, res \in SaveResults : OnHTML_save(u, res)
  \/ \E u \in Targets : OnHTML_mark(u)
  \/ \E r \in Responses : Crawl_asyncRefresh(r)
  \/ Signal_closeStore
  \/ Signal_closeFile
  \/ Signal_exit
  \/ Main_wait
  \/ Main_closeFile
  \/ Main_closeStore

CrawlSpec == CrawlInit /\ [][CrawlNext]_vars

\* ------------------------------------------------ the run from main's entry
\* the process starts: nothing is open, the store's file holds what earlier
\* runs wrote, the pool is empty, the signal goroutine of init waits
StartInit ==
  /\ PoolIdle
  /\ dbOpen = FALSE
  /\ \E P \in SUBSET Targets :
       /\ prior = P
       /\ bucket = [k \in P |-> 0]
       /\ marked = [k \in Keys |-> IF k \in P THEN 1 ELSE 0]
  /\ clock = 0
  /\ last = [op |-> "none", key |-> "", res |-> "none"]
  /\ req = [u \in Targets |-> NoRequest]
  /\ hist = NoHist
  /\ sink = [u \in Targets |-> 0]
  /\ fileOpen = FALSE
  /\ prevProxy = [u \in Targets |-> ""]
  /\ freshViolated = FALSE
  /\ viaSuccess = {}
  /\ dispatched = {}
  /\ sd = [main |-> "newStorage", sig |-> "wait"]
  /\ linksLeft = MaxLinks
  /\ attemptsLeft = MaxAttempts

\* the frame of a step of main's initialisation
StartFrame ==
  /\ UNCHANGED <<currentIndex, isRefreshing, minThreshold, lock, pc, goWaiting, aBurst,
                 newProxies, fres, loc, returned, callsLeft, recent>>
  /\ UNCHANGED <<clock, marked, last>>
  /\ UNCHANGED <<req, hist, sink, prevProxy, freshViolated, viaSuccess, dispatched, prior,
                 linksLeft, attemptsLeft>>

\* main, lines 71-75: NewBoltStorage; its failure (bolt.Open cannot lock or
\* open the file) ends the process through log.Fatalf with nothing opened
Main_newStorage(ok) ==
  /\ ~Exited
  /\ sd.main = "newStorage"
  /\ IF ok
     THEN /\ dbOpen' = TRUE
          /\ bucket' = OpenedBucket(bucket)
          /\ sd' = [sd EXCEPT !.main = "newProxyManager"]
     ELSE /\ sd' = [sd EXCEPT !.main = "fatal"]
          /\ UNCHANGED <<dbOpen, bucket>>
  /\ UNCHANGED <<proxies, fileOpen>>
  /\ StartFrame

\* main, lines 78-81: NewProxyManager, whose fetchProxies fills the pool or
\* fails with a warning
Main_newProxyManager(r) ==
  /\ ~Exited
  /\ sd.main = "newProxyManager"
  /\ proxies' = IF FetchFails(r) THEN <<>> ELSE ParseBody(r.body)
  /\ sd' = [sd EXCEPT !.main = "openFile"]
  /\ UNCHANGED <<dbOpen, bucket, fileOpen>>
  /\ StartFrame

\* main, lines 84-88: os.OpenFile; on its failure log.Fatalf calls os.Exit(1),
\* which runs no deferred function
Main_openFile(ok) ==
  /\ ~Exited
  /\ sd.main = "openFile"
  /\ IF ok
     THEN /\ fileOpen' = TRUE
          /\ sd' = [sd EXCEPT !.main = "createCollector"]
     ELSE /\ sd' = [sd EXCEPT !.main = "fatal"]
          /\ UNCHANGED fileOpen
  /\ UNCHANGED <<proxies, dbOpen, bucket>>
  /\ StartFrame

\* main, lines 91-101: createCollector, whose c.Limit error ends the process
\* through log.Fatalf (lines 147-149), then setupCallbacks and c.Visit
Main_createCollector(ok) ==
  /\ ~Exited
  /\ sd.main = "createCollector"
  /\ sd' = [sd EXCEPT !.main = IF ok THEN "run" ELSE "fatal"]
  /\ UNCHANGED <<proxies, dbOpen, bucket, fileOpen>>
  /\ StartFrame

StartNext ==
  \/ \E ok \in BOOLEAN : Main_newStorage(ok)
  \/ \E r \in Responses : Main_newProxyManager(r)
  \/ \E ok \in BOOLEAN : Main_openFile(ok)
  \/ \E ok \in BOOLEAN : Main_createCollector(ok)
  \/ CrawlNext

StartSpec == StartInit /\ [][StartNext]_vars

\* ------------------------------------------ the retry controller by itself
\* Every URL has been handed to the collector, the store is open and empty.
\* The attempts meet every outcome of Outcomes.
RetryInit ==
  /\ \E r \in Responses :
       proxies = IF FetchFails(r) THEN <<>> ELSE ParseBody(r.body)
  /\ currentIndex = 0
  /\ isRefreshing = FALSE
  /\ minThreshold = Threshold
  /\ lock = "free"
  /\ pc = [p \in Procs |-> IF p = Async THEN "off" ELSE "idle"]
  /\ goWaiting = [fresh |-> 0, burst |-> 0]
  /\ aBurst = FALSE
  /\ newProxies = [p \in Procs |-> <<>>]
  /\ fres = [p \in Procs |-> "none"]
  /\ loc = [w \in Workers |-> NoCall]
  /\ returned = ReturnOf(NoCall, "none", "none")
  /\ callsLeft = 0
  /\ recent = <<>>
  /\ dbOpen = TRUE
  /\ sd = [main |-> "run", sig |-> "wait"]
  /\ bucket = << >>
  /\ marked = [k \in Keys |-> 0]
  /\ prior = {}
  /\ clock = 0
  /\ last = [op |-> "NewBoltStorage", key |-> "", res |-> "ok"]
  /\ req = [u \in Targets |-> [NoRequest EXCEPT !.st = "queued"]]
  /\ hist = NoHist
  /\ sink = [u \in Targets |-> 0]
  /\ fileOpen = TRUE
  /\ prevProxy = [u \in Targets |-> ""]
  /\ freshViolated = FALSE
  /\ viaSuccess = {}
  /\ dispatched = Targets
  /\ linksLeft = 0
  /\ attemptsLeft = MaxAttempts

RetryNext ==
  \/ \E u \in Targets : Fetch_acquire(u)
  \/ \E u \in Targets, o \in Outcomes : OnError_switch(u, o)
  \/ \E u \in Targets : OnError_evict(u)
  \/ \E u \in Targets : OnError_retry(u)
  \/ \E u \in Targets, b \in BOOLEAN : OnHTML_check(u, b)
  \/ \E u \in Targets, res \in SaveResults : OnHTML_save(u, res)
  \/ \E u \in Targets : OnHTML_mark(u)
  \/ \E r \in Responses : Crawl_asyncRefresh(r)

RetrySpec == RetryInit /\ [][RetryNext]_vars

\* ------------------------------- the #specs-list handler, one run per worker
\* The collector's workers run the handler concurrently (Async, line 118;
\* Parallelism, line 143).  Each worker is handed the page of a detail URL
\* and goes through the handler statement by statement; two workers may hold
\* pages of the same URL.  The store and the output file stay open.
HandlerInit ==
  /\ PoolIdle
  /\ dbOpen = TRUE
  /\ \E P \in SUBSET Targets :
       /\ prior = P
       /\ bucket = [k \in P |-> 0]
       /\ marked = [k \in Keys |-> IF k \in P THEN 1 ELSE 0]
  /\ clock = 0
  /\ last = [op |-> "NewBoltStorage", key |-> "", res |-> "ok"]
  /\ req = [u \in Targets |-> NoRequest]
  /\ hist = NoHist
  /\ sink = [u \in Targets |-> 0]
  /\ fileOpen = TRUE
  /\ prevProxy = [u \in Targets |-> ""]
  /\ freshViolated = FALSE
  /\ viaSuccess = {}
  /\ dispatched = {}
  /\ sd = [main |-> "run", sig |-> "wait"]
  /\ linksLeft = 0
  /\ attemptsLeft = MaxAttempts

\* what a step of the handler leaves alone
HandlerFrame ==
  /\ UNCHANGED <<sharedVars, goWaiting, aBurst, newProxies, fres, returned, callsLeft,
                 recent>>
  /\ UNCHANGED <<req, hist, fileOpen, prevProxy, freshViolated, dispatched, prior, sd,
                 linksLeft>>

\* a fetch of u has brought its page and the collector calls the handler in
\* worker w, lines 260-270
SpecsList_page(w, u) ==
  /\ pc[w] = "idle"
  /\ attemptsLeft > 0
  /\ attemptsLeft' = attemptsLeft - 1
  /\ loc' = [loc EXCEPT ![w] = [NoCall EXCEPT !.op = "page", !.arg = u]]
  /\ pc' = [pc EXCEPT ![w] = "h_check"]
  /\ UNCHANGED <<sink, viaSuccess>>
  /\ UNCHANGED storeVars
  /\ HandlerFrame

\* lines 272-275: return when storage.IsVisited(phoneURL)
SpecsList_check(w) ==
  /\ pc[w] = "h_check"
  /\ IF IsVisitedResult(loc[w].arg)
     THEN /\ pc' = [pc EXCEPT ![w] = "idle"]
          /\ loc' = [loc EXCEPT ![w] = NoCall]
     ELSE /\ pc' = [pc EXCEPT ![w] = "h_save"]
          /\ UNCHANGED loc
  /\ UNCHANGED <<sink, viaSuccess, attemptsLeft>>
  /\ UNCHANGED storeVars
  /\ HandlerFrame

\* lines 277-311: build the Phone and savePhone(phone), under outputMutex
SpecsList_save(w, res) ==
  /\ pc[w] = "h_save"
  /\ sink' = IF SavePhoneWrites(res, fileOpen)
             THEN [sink EXCEPT ![loc[w].arg] = IF @ = 0 THEN 1 ELSE 2] ELSE sink
  /\ pc' = [pc EXCEPT ![w] = "h_mark"]
  /\ UNCHANGED <<loc, viaSuccess, attemptsLeft>>
  /\ UNCHANGED storeVars
  /\ HandlerFrame

\* lines 314-318: storage.MarkVisited(phoneURL)
SpecsList_mark(w) ==
  /\ pc[w] = "h_mark"
  /\ StoreMarks(loc[w].arg)
  /\ viaSuccess' = IF MarkVisitedResult(loc[w].arg) = "ok"
                   THEN viaSuccess \cup {loc[w].arg} ELSE viaSuccess
  /\ pc' = [pc EXCEPT ![w] = "idle"]
  /\ loc' = [loc EXCEPT ![w] = NoCall]
  /\ UNCHANGED <<sink, attemptsLeft>>
  /\ HandlerFrame

HandlerNext ==
  \/ \E w \in Workers, u \in Targets : SpecsList_page(w, u)
  \/ \E w \in Workers : SpecsList_check(w)
  \/ \E w \in Workers, res \in SaveResults : SpecsList_save(w, res)
  \/ \E w \in Workers : SpecsList_mark(w)

HandlerSpec == HandlerInit /\ [][HandlerNext]_vars

\* ================================================================= claims
Distinct(s) == \A i, j \in 1..Len(s) : i # j => s[i] # s[j]
InFetch == {"f_call", "f_wait", "f_lock", "f_install", "f_ret"}
\* positions at which the holder of pm.lock releases it in its next step
ReleaseSteps == {"f_install", "g_pick", "r_body"}
Marked == {k \in Keys : marked[k] > 0}

\* C1: a goroutine started by a trigger that was issued while an asynchronous
\* replenishment was in flight returns without calling the supplier: it is
\* never the one whose supplier call is outstanding.
C1_BurstNeverCallsSupplier == ~(aBurst /\ pc[Async] = "f_wait")

\* C2: in every reachable state at most one supplier call is outstanding,
\* the asynchronous and the synchronous (empty-pool) replenishments together.
C2_AtMostOneOutstanding == Cardinality({p \in Procs : pc[p] = "f_wait"}) <= 1

\* C3: the cursor is never negative and is below the length of the pool
\* whenever the pool is non-empty, so GetProxy never indexes past the end.
C3_CursorValid ==
  /\ currentIndex >= 0
  /\ Len(proxies) > 0 => currentIndex < Len(proxies)
  /\ \A w \in Workers : pc[w] # "panic"

\* reached: an evict has removed the last address of the pool
C3_Witness == returned.ret = "removed" /\ Len(proxies) = 0

\* C4 as stated: after N consecutive acquires on a pool of N distinct addresses
\* with no change of the list in between, the N results are the pool's list
\* in insertion order.
C4_InsertionOrder ==
  (Len(proxies) > 0 /\ Distinct(proxies) /\ Len(recent) = Len(proxies))
    => recent = proxies

\* C4 as amended: the N results are the pool's list in cyclic insertion order
\* starting at the cursor at which the first of the N calls found it (where
\* the cursor stands again after the N calls): every address exactly once,
\* and in insertion order itself when that cursor is 0.
C4_RoundRobinCyclic ==
  (Len(proxies) > 0 /\ Distinct(proxies) /\ Len(recent) = Len(proxies))
    => \A i \in 1..Len(proxies) :
         recent[i] = proxies[((currentIndex + i - 1) % Len(proxies)) + 1]

\* reached: as many acquires in a row as the pool has addresses, on a pool of
\* at least two distinct addresses
C4_Witness == Len(proxies) >= 2 /\ Distinct(proxies) /\ Len(recent) = Len(proxies)

\* C5 as stated: an acquire that found the pool empty has, when it returns,
\* made exactly one supplier call and caused no other, and it returned an
\* address if its replenishment installed any and failed otherwise.
C5_EmptyPoolOneCall ==
  (returned.op = "get" /\ returned.sawEmpty)
    => /\ returned.syncCalls = 1
       /\ ~returned.trig
       /\ returned.installedAny => returned.ret = "proxy"
       /\ ~returned.installedAny =>
            returned.ret \in {"errRefresh", "errStillEmpty", "errNoProxy"}

\* C5 as amended: an acquire that found the pool empty has, when it returns,
\* made exactly one synchronous supplier call; it failed when that call failed,
\* when its second count found the pool empty, or when the pool was empty as it
\* selected, and returned an address otherwise; and it started an asynchronous
\* replenishment exactly when its second count was non-zero and below the
\* watermark.
C5_EmptyPoolSyncRefresh ==
  (returned.op = "get" /\ returned.sawEmpty)
    => /\ returned.syncCalls = 1
       /\ returned.fres \in {"ok", "err"}
       /\ returned.fres = "err" => returned.ret = "errRefresh" /\ ~returned.trig
       /\ returned.fres = "ok" =>
            /\ returned.ret \in {"errStillEmpty", "proxy", "errNoProxy"}
            /\ returned.ret = "errStillEmpty" <=> returned.proxyCount = 0
            /\ returned.trig <=> (returned.proxyCount > 0
                                  /\ returned.proxyCount < minThreshold)

\* reached: an acquire on an empty pool returned an address after its one
\* synchronous supplier call
C5_Witness ==
  /\ returned.op = "get"
  /\ returned.sawEmpty
  /\ returned.syncCalls = 1
  /\ returned.ret = "proxy"

\* C6: a worker waits for the supplier only inside an acquire that found the
\* pool empty; everywhere else in acquire and evict (also after the call has
\* started an asynchronous replenishment) its next step is enabled, or pm.lock
\* is held by a process that releases it in its next step without the supplier.
C6_WatermarkNonBlocking ==
  \A w \in Workers :
    /\ pc[w] \in InFetch =>
         loc[w].op = "get" /\ loc[w].sawEmpty /\ ~loc[w].trig
    /\ (pc[w] \in {"g_water", "g_lock", "g_pick", "r_body"}
        \/ (pc[w] = "idle" /\ callsLeft > 0))
         => \/ ENABLED WorkerStep(w)
            \/ (lock \in Procs /\ pc[lock] \in ReleaseSteps)

\* reached: the first call of the run, an evict that left the pool non-empty
\* and below the watermark, has returned while the supplier call of the
\* replenishment it started is outstanding
C6_Witness ==
  /\ callsLeft = MaxCalls - 1
  /\ returned.ret = "removed"
  /\ returned.trig
  /\ Len(proxies) > 0
  /\ pc[Async] = "f_wait"

\* C7: every step of a replenishment up to the failure of its supplier call
\* leaves the list and the cursor as they are, and the failure is handed back:
\* fetchProxies returns, and the acquire that called it returns the error.
C7_FailureKeepsPool ==
  /\ [][\A p \in Procs :
          (pc[p] \in {"f_call", "f_wait"} /\ pc'[p] # pc[p]
           /\ (pc'[p] = "f_wait" \/ fres'[p] = "err"))
            => /\ proxies' = proxies
               /\ currentIndex' = currentIndex
               /\ pc'[p] \in {"f_wait", "f_ret"}]_vars
  /\ [](returned.fres = "err" => returned.ret = "errRefresh")

\* reached: the supplier call of a replenishment over a non-empty pool has failed
C7_Witness == \E p \in Procs : pc[p] = "f_ret" /\ fres[p] = "err" /\ Len(proxies) > 0

\* C8: a replenishment whose response was status 200 with an empty or blank
\* body (newProxies is empty) leaves a non-empty pool as it is and reports an
\* error.
C8_EmptyBodyIsFailure ==
  [][\A p \in Procs :
       (pc[p] = "f_install" /\ pc'[p] = "f_ret" /\ newProxies[p] = <<>>
        /\ proxies # <<>>)
         => proxies' = proxies /\ fres'[p] = "err"]_vars

\* C9: an evict of an address that is not in the pool leaves the list and the
\* cursor unchanged and starts no asynchronous replenishment.
C9_EvictAbsentNoop ==
  /\ [][\A w \in Workers :
          (pc[w] = "r_body" /\ pc'[w] = "idle"
           /\ \A i \in 1..Len(proxies) : proxies[i] # loc[w].arg)
            => /\ proxies' = proxies
               /\ currentIndex' = currentIndex
               /\ goWaiting' = goWaiting]_vars
  /\ [](returned.ret = "absent" => ~returned.trig)

\* reached: an evict of an absent address has returned on a pool that is
\* non-empty and below the watermark
C9_Witness ==
  /\ returned.ret = "absent"
  /\ Len(proxies) > 0
  /\ Len(proxies) < minThreshold

\* C10 as stated: once MarkVisited(X) has returned nil, IsVisited(X) is true in
\* every later state, whatever calls of MarkVisited, IsVisited, Close and
\* NewBoltStorage follow.
C10_VisitedStaysTrue == \A k \in Marked : IsVisitedResult(k)

\* C10 as amended: once MarkVisited(X) has returned nil the key stays in the
\* bucket (nothing deletes it, a Close and reopen included), and whenever the
\* store is open IsVisited(X) is true and another MarkVisited(X) returns nil.
C10_VisitedDurable ==
  \A k \in Marked :
    /\ k \in DOMAIN bucket
    /\ dbOpen => IsVisitedResult(k) /\ MarkVisitedResult(k) = "ok"

\* reached: a key marked twice is visited after a Close and a reopen
C10_Witness ==
  /\ last.op = "NewBoltStorage"
  /\ last.res = "ok"
  /\ \E k \in Keys : marked[k] = 2 /\ IsVisitedResult(k)

\* C11: IsVisited is fail-open.  A call for a key that MarkVisited never wrote
\* returns false, a call on a closed store returns false even for a key that
\* was written earlier, and every call returns a plain true or false (the
\* fault is logged, never handed to the caller).
C11_IsVisitedFailOpen ==
  last.op = "IsVisited" =>
    /\ last.res \in {"true", "false"}
    /\ marked[last.key] = 0 => last.res = "false"
    /\ ~dbOpen => last.res = "false"

\* reached: IsVisited answered false on a closed store for a key written before
C11_Witness ==
  /\ last.op = "IsVisited"
  /\ ~dbOpen
  /\ marked[last.key] > 0
  /\ last.key \in DOMAIN bucket
  /\ last.res = "false"

\* C12: OnError's classification of the literal inputs.  404 takes the
\* mark-and-skip case, 429 the retry case, status 0 with "timeout" in the
\* error text the retry case, 500 with an unrecognised text the default case;
\* a page (200, no error) goes to the HTML handler; a request in the retry
\* case that carries a proxy has had RemoveProxy called for it before Retry.
\* This holds in every pool and store state the attempts meet.
C12_ClassifierLiteral ==
  /\ hist.case # "none" =>
       /\ hist.err = NoError <=> hist.case = "page"
       /\ (hist.status = 200 /\ hist.err = NoError) => hist.case = "page"
       /\ hist.status = 404 => hist.case = "mark"
       /\ hist.status = 429 => hist.case = "retry"
       /\ (hist.status = 0 /\ Contains(hist.err, "timeout")) => hist.case = "retry"
       /\ (hist.status = 500 /\ hist.err = <<"other">>) => hist.case = "skip"
  /\ \A u \in Targets :
       (req[u].st = "retry" /\ req[u].proxyURL # "") => req[u].evicted

\* reached: a 429 took the retry case and its proxy was evicted, with a URL
\* in the store and the pool left empty
C12_Witness ==
  /\ hist.status = 429
  /\ hist.case = "retry"
  /\ DOMAIN bucket # {}
  /\ Len(proxies) = 0
  /\ \E u \in Targets : req[u].st = "retry" /\ req[u].evicted

\* C13: every failed attempt without a response (status 0) takes the retry
\* case, whatever its error text.
C13_NoResponseRetryable ==
  (hist.case \in {"mark", "retry", "skip"} /\ hist.status = 0) => hist.case = "retry"

\* statuses that OnError's first two cases and the claim's rule 1 name
NamedStatuses == {0, 403, 404, 429, 503}
\* the request of u is at the point where the collector calls a handler for it
AtHandler(u) == req[u].st \in {"sent", "nosend"}
\* the handler called last was OnError
FailedLast == hist.case \in {"mark", "retry", "skip"}

\* C14 as stated: a failed attempt whose status is none of 0, 404, 403, 429,
\* 503 takes the default case, whatever its error text.
C14_OtherStatusSkips ==
  (FailedLast /\ hist.status \notin NamedStatuses) => hist.case = "skip"

\* C14 as amended: a failed attempt whose status is none of 0, 404, 403, 429,
\* 503 takes the default case exactly when its error text contains none of
\* "timeout", "connection refused", "EOF" (with one of them it is retried);
\* the default case leaves the pool and the store as they are and drops the
\* request.
C14_OtherStatusSkipsUnlessConnText ==
  /\ [](FailedLast /\ hist.status \notin NamedStatuses =>
          hist.case = IF \/ Contains(hist.err, "timeout")
                         \/ Contains(hist.err, "connection refused")
                         \/ Contains(hist.err, "EOF")
                      THEN "retry" ELSE "skip")
  /\ [][\A u \in Targets :
          (AtHandler(u) /\ req'[u].st \in {"none", "evict"} /\ hist'.case = "skip") =>
             /\ req'[u] = NoRequest
             /\ proxies' = proxies
             /\ currentIndex' = currentIndex
             /\ goWaiting' = goWaiting
             /\ bucket' = bucket]_vars

\* reached: a 500 with an unrecognised text took the default case while the
\* pool held proxies, and the request is gone
C14_Witness ==
  /\ hist.status = 500
  /\ hist.err = <<"other">>
  /\ hist.case = "skip"
  /\ Len(proxies) > 0
  /\ \E u \in Targets : req[u] = NoRequest

C16_FreshProxyOnRetry == ~freshViolated

\* C17: an attempt that ends with status 404 leaves its URL written in the
\* store (IsVisited of it is true afterwards), writes no record, leaves the
\* pool as it is and drops the request.
C17_NotFoundMarks ==
  [][\A u \in Targets :
       (AtHandler(u) /\ req'[u] # req[u] /\ hist'.case = "mark" /\ hist'.status = 404) =>
          /\ u \in DOMAIN bucket'
          /\ IsVisitedResult(u)'
          /\ sink' = sink
          /\ proxies' = proxies
          /\ req'[u] = NoRequest]_vars

\* C18: no fetch is issued in this run for a detail-page URL that the store
\* held when the run started.
C18_NoFetchForVisited == prior \cap dispatched = {}

\* C19: every URL that the #specs-list handler has marked visited has its
\* record in the output file, also when json.Marshal or outputFile.Write fails.
C19_MarkOnlyAfterEmission == \A u \in viaSuccess : sink[u] > 0

\* the collector holds a request for u whose fetch was started and whose
\* outcome is not yet fully handled
InFlight(u) == req[u].st \in {"sent", "nosend", "evict", "retry", "save", "mark"}

\* C20: the store is closed only when no fetch is in flight and every outcome
\* has been handled.
C20_CloseAfterFetches == ~dbOpen => \A u \in Targets : ~InFlight(u)

\* C21: when an interrupt signal has been received during the run and the
\* process has terminated (os.Exit in the signal goroutine, or main's return),
\* the store and the output file are both closed.
C21_SignalClosesBoth == (Exited /\ sd.sig # "wait") => (~dbOpen /\ ~fileOpen)

\* the signal arrived while a fetch was in flight and its goroutine ended the
\* process before main returned
C21_Witness ==
  /\ sd.sig = "done"
  /\ sd.main = "run"
  /\ \E u \in Targets : InFlight(u)

\* C22: when log.Fatalf has ended the process during main's initialisation, the
\* store that line 71 had opened is closed.
C22_FatalClosesStore == sd.main = "fatal" => ~dbOpen

\* the list of a replenishment is in pm.proxies and the cursor is not yet reset
HalfReplaced == \E p \in Procs : pc[p] = "f_reset"

\* C23: a successful replenishment replaces the pool atomically.  While the new
\* list is in place and the cursor is not yet reset, the replenishment holds
\* pm.lock and no step of an acquire or an evict that reads or writes the list
\* or the cursor can be taken; the list put in place is the supplier's list
\* (nothing of the old list is kept), and the lock is released with that list
\* in place and the cursor at 0.
C23_AtomicReplace ==
  /\ [](HalfReplaced => \A w \in Workers : ~ENABLED Observes(w))
  /\ [][\A p \in Procs :
          (pc[p] = "f_assign" /\ pc'[p] = "f_reset")
            => lock = p /\ lock' = p /\ proxies' = newProxies[p]]_vars
  /\ [][\A p \in Procs :
          (pc[p] = "f_reset" /\ pc'[p] = "f_ret")
            => /\ lock = p /\ lock' = "free"
               /\ proxies = newProxies[p] /\ proxies' = proxies
               /\ currentIndex' = 0]_vars

\* reached: the new list is in place over a cursor that is not 0, and an
\* acquire waits for pm.lock
C23_Witness ==
  /\ HalfReplaced
  /\ currentIndex > 0
  /\ \E w \in Workers : pc[w] = "g_lock"

\* C24: while the supplier call of a replenishment is outstanding, the
\* replenishment does not hold pm.lock, and every other worker that is in an
\* acquire past its count, in an evict, or about to start a call (whose first
\* step counts or evicts under the lock) can take its next step, or the lock
\* is held by another process that releases it in its next step.
C24_NoLockAcrossCall ==
  \A p \in Procs :
    pc[p] = "f_wait" =>
      /\ lock # p
      /\ \A w \in Workers \ {p} :
           (pc[w] \in {"g_water", "g_lock", "g_pick", "r_body"}
            \/ (pc[w] = "idle" /\ callsLeft > 0))
             => \/ ENABLED WorkerStep(w)
                \/ (lock \in Procs \ {p} /\ pc[lock] \in ReleaseSteps)

\* reached: during the supplier call of a replenishment another worker holds
\* pm.lock inside an acquire or an evict on a non-empty pool
C24_Witness ==
  \E p \in Procs :
    /\ pc[p] = "f_wait"
    /\ Len(proxies) > 0
    /\ \E w \in Workers \ {p} : lock = w /\ pc[w] \in {"g_pick", "r_body"}

\* C25: at most one record per URL is written to the output file, also when
\* two workers run the #specs-list handler for the same URL at the same time.
C25_AtMostOneRecord == \A u \in Targets : sink[u] <= 1

\* the results with which GetProxy fails for want of a proxy
NoProxyErrors == {"errRefresh", "errStillEmpty", "errNoProxy"}

\* C26 as stated: an acquire that failed for want of a proxy made one
\* synchronous replenishment attempt of its own, and that attempt failed or
\* installed no address.
C26_FailsOnlyAfterOwnRefresh ==
  (returned.op = "get" /\ returned.ret \in NoProxyErrors)
    => /\ returned.syncCalls = 1
       /\ returned.fres = "err" \/ ~returned.installedAny

\* C26 as amended: an acquire fails for want of a proxy in three places.  After
\* its own synchronous replenishment attempt failed; after that attempt
\* succeeded and its second count found the pool empty; and, with or without
\* an attempt of its own, when its last count was not zero and the pool is
\* empty as it selects under the write lock (emptied in between by an evict or
\* a replenishment of another caller).  An acquire that made no attempt of its
\* own fails only in the third place.
C26_FailsAfterRefreshOrEmptiedAtPick ==
  /\ [](returned.op = "get" =>
          /\ returned.ret = "errRefresh" =>
               returned.syncCalls = 1 /\ returned.fres = "err"
          /\ returned.ret = "errStillEmpty" =>
               returned.syncCalls = 1 /\ returned.fres = "ok" /\ returned.proxyCount = 0
          /\ returned.ret = "errNoProxy" => returned.proxyCount > 0
          /\ (returned.ret \in NoProxyErrors /\ returned.syncCalls = 0) =>
               returned.ret = "errNoProxy" /\ ~returned.sawEmpty)
  /\ [][\A w \in Workers :
          (pc[w] = "g_pick" /\ pc'[w] = "idle" /\ returned'.ret = "errNoProxy")
            => Len(proxies) = 0 /\ lock = w]_vars

\* reached: an acquire that counted a non-empty pool and made no replenishment
\* attempt failed because the pool was empty as it selected
C26_Witness ==
  /\ returned.op = "get"
  /\ returned.ret = "errNoProxy"
  /\ returned.syncCalls = 0
  /\ returned.proxyCount > 0

\* C27 as stated: an evict that removes an address and leaves the pool
\* non-empty leaves the cursor on the address that was due before it, or on
\* that address's cyclic successor when the evicted address was the one due.
C27_EvictKeepsPosition ==
  [][\A w \in Workers :
       LET i == IndexOf(proxies, loc[w].arg)
           n == Len(proxies)
       IN  (pc[w] = "r_body" /\ pc'[w] = "idle" /\ i > 0 /\ n > 1)
             => proxies'[currentIndex' + 1] =
                  IF i = currentIndex + 1
                  THEN proxies[((currentIndex + 1) % n) + 1]
                  ELSE proxies[currentIndex + 1]]_vars

\* C27 as amended: an evict keeps the cursor's index, not its address.  When
\* the evicted address lies after the cursor, the address that was due stays
\* due.  When it is the one due or lies before the cursor, the cursor comes to
\* stand on the address that followed the one due, or on the first address of
\* the list when the cursor stood on the last slot; so an evict before the
\* cursor that leaves at least two distinct addresses skips the one that was due.
C27_EvictKeepsIndex ==
  [][\A w \in Workers :
       LET i == IndexOf(proxies, loc[w].arg)
           n == Len(proxies)
           c == currentIndex
           next == proxies'[currentIndex' + 1]
       IN  (pc[w] = "r_body" /\ pc'[w] = "idle" /\ i > 0 /\ n > 1)
             => /\ next = IF i > c + 1 THEN proxies[c + 1]
                          ELSE IF c + 1 < n THEN proxies[c + 2]
                          ELSE proxies'[1]
                /\ (i < c + 1 /\ n > 2 /\ Distinct(proxies)) => next # proxies[c + 1]]_vars

\* reached: the first of three addresses has been evicted while the cursor
\* stood on the second, and the cursor now stands on the third
C27_Witness ==
  /\ returned.ret = "removed"
  /\ proxies = SubSeq(ParseBody(LongBody), 2, 3)
  /\ currentIndex = 1

\* C28: on the signal path the store is closed before the output file.  From
\* the first step of the signal goroutine on the store is closed, so no step
\* after it writes the store; once the output file is closed no step writes
\* the store; and the file is never closed over an open store while a fetch
\* or a handler is in flight, so a handler whose savePhone found the file
\* closed cannot mark its URL.
C28_StoreClosedBeforeSink ==
  /\ [](sd.sig # "wait" => ~dbOpen)
  /\ [][(sd.sig # "wait" \/ ~fileOpen)
          => (bucket' = bucket /\ viaSuccess' = viaSuccess)]_vars
  /\ []((~fileOpen /\ dbOpen) => \A u \in Targets : ~InFlight(u))

\* reached: the signal goroutine has ended the process and a handler that was
\* running has left its record in the file and its URL unmarked
C28_Witness ==
  /\ sd.sig = "done"
  /\ sd.main = "run"
  /\ \E u \in Targets : sink[u] > 0 /\ u \notin DOMAIN bucket /\ req[u].st = "mark"

====
